---------------------------- MODULE Spec2Model ----------------------------
(***************************************************************************)
(* Model of the numerical kernels of PyTransit:                            *)
(*   - downsample_time             (pytransit/lpf/tesslpf.py)              *)
(*   - ntrapz, eval_ldm, eval_ldm_frozen, LDTkLDModel                      *)
(*                                 (pytransit/models/ldtkldm.py)           *)
(*                                                                         *)
(* Floating point values are modelled as exact rationals <<num, den>>      *)
(* (den > 0, lowest terms); inputs are drawn from integer lattices.  NaN   *)
(* is the pair <<0, 0>>.  Multiples of pi are carried as their rational    *)
(* factor.                                                                 *)
(***************************************************************************)
EXTENDS Integers, Sequences, FiniteSets

VARIABLES
    \* ---- ntrapz harness
    tx, ty,          \* the arguments x, y
    tpc,             \* "ready" | "done"
    tret,            \* the returned value
    \* ---- downsample_time harness
    time, vals, inttime,   \* the arguments
    bpc,                   \* "ready" | "done"
    bres,                  \* outcome of the call and its local / returned arrays
    \* ---- LDTkLDModel instance
    frozen,          \* self.frozen
    self_i,          \* self._i
    ldop,            \* the last method called and how it ended
    ldcall,          \* arguments, draws and return value of the last __call__
    ldearlier        \* history: one earlier __call__ of a frozen model

vars == <<tx, ty, tpc, tret, time, vals, inttime, bpc, bres,
          frozen, self_i, ldop, ldcall, ldearlier>>

trapzVars == <<tx, ty, tpc, tret>>
binVars   == <<time, vals, inttime, bpc, bres>>
ldVars    == <<frozen, self_i, ldop, ldcall, ldearlier>>

-----------------------------------------------------------------------------
(* Bounds of the model *)

MaxN == 3        \* longest ntrapz argument
MaxV == 2        \* ntrapz arguments take values in 0..MaxV
MaxLen == 3      \* longest time series given to downsample_time
MaxTime == 4     \* sample times lie in 0..MaxTime
MaxVal == 1      \* sample values lie in 0..MaxVal
MaxDt == 2       \* bin widths lie in -MaxDt..MaxDt
MaxNpv == 2      \* largest batch of parameter vectors given to __call__

-----------------------------------------------------------------------------
(* Exact arithmetic *)

Abs(a) == IF a < 0 THEN -a ELSE a

RECURSIVE GCD(_, _)
GCD(a, b) == IF b = 0 THEN a ELSE GCD(b, a % b)

\* <<n, d>> with d # 0, brought to lowest terms with a positive denominator
Norm(q) ==
    LET n == IF q[2] < 0 THEN -q[1] ELSE q[1]
        d == Abs(q[2])
        g == GCD(Abs(n), d)
    IN  <<n \div g, d \div g>>

Rat(a) == <<a, 1>>

RatAdd(p, q) == Norm(<<p[1] * q[2] + q[1] * p[2], p[2] * q[2]>>)

RatMul(p, q) == Norm(<<p[1] * q[1], p[2] * q[2]>>)

RatSub(p, q) == RatAdd(p, <<-q[1], q[2]>>)

Half == <<1, 2>>

\* numpy.nan
nan == <<0, 0>>

\* an array of integers as an array of floats
ToRat(a) == [k \in DOMAIN a |-> Rat(a[k])]

\* the sum of f[k] over the indices k in S
RECURSIVE SumOver(_, _)
SumOver(S, f) ==
    IF S = {} THEN 0
    ELSE LET k == CHOOSE k \in S : TRUE IN f[k] + SumOver(S \ {k}, f)

-----------------------------------------------------------------------------
(* ntrapz: the trapezoidal integrator *)

\* loop body of ntrapz for index i (1-based position i+1 in the array)
ntrapzStep(ii, x, y, i) ==
    RatAdd(ii, RatMul(RatMul(RatSub(x[i + 1], x[i]), Half), RatAdd(y[i + 1], y[i])))

\* for i in range(1, npt): ii += ...   (i runs over 1 .. npt-1)
RECURSIVE ntrapzLoop(_, _, _, _, _)
ntrapzLoop(ii, x, y, i, npt) ==
    IF i >= npt THEN ii
    ELSE ntrapzLoop(ntrapzStep(ii, x, y, i), x, y, i + 1, npt)

\* a loop that starts at index 0 and so reads x[-1], y[-1] (the last elements)
ntrapzWrapAround(x, y) ==
    LET npt == Len(x)
        first == IF npt = 0 THEN Rat(0)
                 ELSE RatMul(RatMul(RatSub(x[1], x[npt]), Half), RatAdd(y[1], y[npt]))
    IN  ntrapzLoop(first, x, y, 1, npt)

ntrapz(x, y) ==
    LET npt == Len(x)
    IN  ntrapzLoop(Rat(0), x, y, 1, npt)

SeqsOfLen(S, n) == [1..n -> S]

TrapzCall ==
    /\ tpc = "ready"
    /\ tret' = ntrapz(ToRat(tx), ToRat(ty))
    /\ tpc' = "done"
    /\ UNCHANGED <<tx, ty>>

-----------------------------------------------------------------------------
(* downsample_time *)

SeqMax(s) == CHOOSE m \in {s[k] : k \in DOMAIN s} : \A k \in DOMAIN s : s[k] <= m
SeqMin(s) == CHOOSE m \in {s[k] : k \in DOMAIN s} : \A k \in DOMAIN s : m <= s[k]

\* int(ceil(a / b)) for b # 0
CeilDiv(a, b) ==
    IF b > 0 THEN -((-a) \div b) ELSE -(a \div (-b))

\* arange(nbins): empty when nbins <= 0
arange(nbins) == [j \in 1..nbins |-> j - 1]

\* edges = time[0] + bins * inttime
Edges(t, bins, dt) == [j \in DOMAIN bins |-> t[1] + bins[j] * dt]

\* edges that start at the smallest time
EdgesFromMin(t, bins, dt) == [j \in DOMAIN bins |-> SeqMin(t) + bins[j] * dt]

\* digitize(x, edges) for nondecreasing edges: the number of edges <= x
digitize(x, edges) ==
    [k \in DOMAIN x |-> Cardinality({j \in DOMAIN edges : edges[j] <= x[k]})]

\* bids without the offset of one
BinIdsNoOffset(t, edges) == digitize(t, edges)

\* bids = digitize(time, edges) - 1
BinIds(t, edges) == [k \in DOMAIN t |-> digitize(t, edges)[k] - 1]

\* bmask = bid == bids, as the set of sample indices it selects
Mask(bid, bids) == {k \in DOMAIN bids : bids[k] = bid}

\* a[bmask].mean()
MeanOf(a, mask) == Norm(<<SumOver(mask, a), Cardinality(mask)>>)

\* (a[bmask].std() / sqrt(bmask.sum())) ** 2, the standard error carried as its square:
\* std**2 = (n*sum(a**2) - sum(a)**2) / n**2
StdErrSq(a, mask) ==
    LET n  == Cardinality(mask)
        s1 == SumOver(mask, a)
        s2 == SumOver(mask, [k \in DOMAIN a |-> a[k] * a[k]])
    IN  Norm(<<n * s2 - s1 * s1, n * n * n>>)

\* one pass of the loop over bins: bt[i], bv[i], be[i] of bin bid
BinStats(t, v, bids, bid) ==
    LET mask == Mask(bid, bids)
        n == Cardinality(mask)
    IN  IF n > 0
        THEN [bt |-> MeanOf(t, mask),
              bv |-> MeanOf(v, mask),
              be |-> IF n > 2 THEN StdErrSq(v, mask) ELSE nan]
        ELSE [bt |-> nan, bv |-> Rat(0), be |-> Rat(0)]   \* full(nan), zeros, zeros

\* isfinite(be)
isfinite(x) == x[2] # 0

\* a[m] for a boolean mask m over 1..Len(a)
RECURSIVE Compress(_, _, _)
Compress(a, m, j) ==
    IF j > Len(a) THEN <<>>
    ELSE (IF m[j] THEN <<a[j]>> ELSE <<>>) \o Compress(a, m, j + 1)

downsample_time(t, v, dt) ==
    IF Len(t) = 0
    THEN [outcome |-> "ValueError"]            \* time.max() of a zero-size array
    ELSE IF dt = 0
    THEN [outcome |-> "ZeroDivisionError"]     \* duration / inttime
    ELSE
      LET duration == SeqMax(t) - SeqMin(t)
          nbins == CeilDiv(duration, dt)
          bins  == arange(nbins)
          edges == Edges(t, bins, dt)
          bids  == BinIds(t, edges)
      IN  IF nbins < 0
          THEN [outcome |-> "ValueError"]      \* full(nbins, nan): negative dimension
          ELSE
            LET st == [j \in 1..nbins |-> BinStats(t, v, bids, bins[j])]
                m  == [j \in 1..nbins |-> isfinite(st[j].be)]
            IN  [outcome |-> "ok",
                 nbins |-> nbins,
                 edges |-> edges,
                 bids  |-> bids,
                 m     |-> m,
                 bt |-> Compress([j \in 1..nbins |-> st[j].bt], m, 1),
                 bv |-> Compress([j \in 1..nbins |-> st[j].bv], m, 1),
                 be |-> Compress([j \in 1..nbins |-> st[j].be], m, 1)]

Downsample ==
    /\ bpc = "ready"
    /\ bres' = downsample_time(time, vals, inttime)
    /\ bpc' = "done"
    /\ UNCHANGED <<time, vals, inttime>>


-----------------------------------------------------------------------------
(* LDTkLDModel: the sampled limb darkening model *)

\* The profile set created by LDPSetCreator.create_profiles, scaled to a
\* lattice: self.mu, self.z (mu^2 + z^2 = 25), self.profiles[ipb][sample]
\* and self.mean_profiles[ipb].
mu == <<0, 3, 5>>
z  == <<5, 4, 0>>

profiles ==
    << << <<1, 4, 9>>, <<2, 5, 7>>, <<0, 6, 8>> >>,
       << <<3, 3, 6>>, <<1, 7, 7>>, <<2, 4, 10>> >> >>

npb == Len(profiles)
nsamples == Len(profiles[1])

ldps == [ipb \in 1..npb |-> [s \in 1..nsamples |-> ToRat(profiles[ipb][s])]]

\* profile_averages: the mean over the samples, per passband and grid point
mean_profiles ==
    [ipb \in 1..npb |->
        [g \in DOMAIN mu |->
            Norm(<<SumOver(1..nsamples, [s \in 1..nsamples |-> profiles[ipb][s][g]]),
                   nsamples>>)]]

\* the mu grids a caller evaluates the model on
EmuGrids == {<<>>, <<-1>>, <<4, 6>>, <<0, 2, 5>>}

\* numpy.interp at one point x: linear inside the grid, the edge value outside
InterpAt(x, xp, fp) ==
    LET n == Len(xp)
    IN  IF x <= xp[1] THEN fp[1]
        ELSE IF x >= xp[n] THEN fp[n]
        ELSE LET j == CHOOSE j \in 1..(n - 1) : xp[j] <= x /\ x < xp[j + 1]
                 slope == RatMul(RatSub(fp[j + 1], fp[j]), <<1, xp[j + 1] - xp[j]>>)
             IN  RatAdd(RatMul(slope, Rat(x - xp[j])), fp[j])

interp(x, xp, fp) == [k \in DOMAIN x |-> InterpAt(x[k], xp, fp)]

\* z * profile, elementwise
Times(a, b) == [g \in DOMAIN a |-> RatMul(Rat(a[g]), b[g])]

\* -2 * pi * ntrapz(z, z * profile), as a multiple of pi
DiskIntegral(zz, prof) == RatMul(Rat(-2), ntrapz(ToRat(zz), Times(zz, prof)))

\* a result of __call__
CallResult(emu, npv, iis, outcome, ldp, ldi) ==
    [mu |-> emu, npv |-> npv, iis |-> iis, outcome |-> outcome, ldp |-> ldp, ldi |-> ldi]

NoCall == CallResult(<<>>, 0, <<>>, "none", <<>>, <<>>)

\* eval_ldm with the coefficient of every row taken from the first row's sample
eval_ldmMixed(emu, mu_, z_, ldps_, npv, iis) ==
    CallResult(emu, npv, iis, "ok",
        [ipv \in 1..npv |-> [ipb \in 1..Len(ldps_) |->
            interp(emu, mu_, ldps_[ipb][iis[ipv] + 1])]],
        [ipv \in 1..npv |-> [ipb \in 1..Len(ldps_) |->
            DiskIntegral(z_, ldps_[ipb][iis[1] + 1])]])

\* eval_ldm; iis is the value drawn by randint(0, nsamples, size=npv)
eval_ldm(emu, mu_, z_, ldps_, npv, iis) ==
    CallResult(emu, npv, iis, "ok",
        [ipv \in 1..npv |-> [ipb \in 1..Len(ldps_) |->
            interp(emu, mu_, ldps_[ipb][iis[ipv] + 1])]],
        [ipv \in 1..npv |-> [ipb \in 1..Len(ldps_) |->
            DiskIntegral(z_, ldps_[ipb][iis[ipv] + 1])]])

\* eval_ldm_frozen whose broadcast loop leaves the rows after the first at zero
eval_ldm_frozenNoBroadcast(emu, mu_, z_, mldps, npv, oob) ==
    IF npv = 0
    THEN CallResult(emu, npv, <<>>, oob, <<>>, <<>>)
    ELSE CallResult(emu, npv, <<>>, "ok",
        [i \in 1..npv |-> [ipb \in 1..Len(mldps) |->
            IF i = 1 THEN interp(emu, mu_, mldps[ipb])
            ELSE [k \in DOMAIN emu |-> Rat(0)]]],
        [i \in 1..npv |-> [ipb \in 1..Len(mldps) |->
            IF i = 1 THEN DiskIntegral(z_, mldps[ipb]) ELSE Rat(0)]])

\* eval_ldm_frozen.  With npv = 0 the stores to ldp[0, ipb] and ldi[0, ipb] fall
\* outside the zero-size arrays (no bounds check in compiled code): oob is what
\* the build makes of it, the empty arrays returned ("ok") or a crash.
eval_ldm_frozen(emu, mu_, z_, mldps, npv, oob) ==
    IF npv = 0
    THEN CallResult(emu, npv, <<>>, oob, <<>>, <<>>)
    ELSE
      LET ldp0 == [ipb \in 1..Len(mldps) |-> interp(emu, mu_, mldps[ipb])]
          ldi0 == [ipb \in 1..Len(mldps) |-> DiskIntegral(z_, mldps[ipb])]
      IN  CallResult(emu, npv, <<>>, "ok",
              [i \in 1..npv |-> ldp0], [i \in 1..npv |-> ldi0])

\* LDTkLDModel.__call__(mu, x): npv = 1 if x is None else x.shape[0]
Call ==
    /\ ldop.outcome # "crash"
    /\ \E emu \in EmuGrids, npv \in 0..MaxNpv :
          /\ \E i \in 0..(nsamples - 1) : self_i' = i
          /\ IF frozen
             THEN \E oob \in (IF npv = 0 THEN {"ok", "crash"} ELSE {"ok"}) :
                    ldcall' = eval_ldm_frozen(emu, mu, z, mean_profiles, npv, oob)
             ELSE \E iis \in [1..npv -> 0..(nsamples - 1)] :
                    ldcall' = eval_ldm(emu, mu, z, ldps, npv, iis)
          /\ ldop' = [name |-> "call", outcome |-> ldcall'.outcome]
    /\ ldearlier' \in (IF frozen THEN {ldearlier, ldcall} ELSE {ldearlier})
    /\ UNCHANGED frozen

\* LDModel.integrate, the base class method: evaluates the model and integrates
IntegrateBase ==
    /\ ldop.outcome # "crash"
    /\ \E i \in 0..(nsamples - 1) : self_i' = i
    /\ ldop' = [name |-> "integrate", outcome |-> "ok"]
    /\ UNCHANGED <<frozen, ldcall, ldearlier>>

\* LDTkLDModel.integrate(x): raise NotImplementedError
Integrate ==
    /\ ldop.outcome # "crash"
    /\ ldop' = [name |-> "integrate", outcome |-> "NotImplementedError"]
    /\ UNCHANGED <<frozen, self_i, ldcall, ldearlier>>

-----------------------------------------------------------------------------
(* Specifications *)

\* ntrapz applied to every pair of equal-length arrays within the bounds
TrapzInit ==
    /\ \E n \in 0..MaxN :
          /\ tx \in SeqsOfLen(0..MaxV, n)
          /\ ty \in SeqsOfLen(0..MaxV, n)
    /\ tpc = "ready"
    /\ tret = nan
    /\ time = <<>> /\ vals = <<>> /\ inttime = 1
    /\ bpc = "idle" /\ bres = [outcome |-> "none"]
    /\ frozen = FALSE /\ self_i = 0
    /\ ldop = [name |-> "none", outcome |-> "ok"]
    /\ ldcall = NoCall /\ ldearlier = NoCall

TrapzNext == TrapzCall /\ UNCHANGED <<binVars, ldVars>>

SpecTrapz == TrapzInit /\ [][TrapzNext]_vars

\* downsample_time applied to every series and bin width within the bounds
BinInit ==
    /\ \E n \in 0..MaxLen :
          /\ time \in SeqsOfLen(0..MaxTime, n)
          /\ vals \in SeqsOfLen(0..MaxVal, n)
    /\ inttime \in (-MaxDt)..MaxDt
    /\ bpc = "ready"
    /\ bres = [outcome |-> "none"]
    /\ tx = <<>> /\ ty = <<>> /\ tpc = "idle" /\ tret = nan
    /\ frozen = FALSE /\ self_i = 0
    /\ ldop = [name |-> "none", outcome |-> "ok"]
    /\ ldcall = NoCall /\ ldearlier = NoCall

BinNext == Downsample /\ UNCHANGED <<trapzVars, ldVars>>

SpecBin == BinInit /\ [][BinNext]_vars

\* an LDTkLDModel after __init__, then any sequence of method calls
LDInit ==
    /\ frozen \in BOOLEAN
    /\ self_i = 0
    /\ ldop = [name |-> "init", outcome |-> "ok"]
    /\ ldcall = NoCall
    /\ ldearlier = NoCall
    /\ tx = <<>> /\ ty = <<>> /\ tpc = "idle" /\ tret = nan
    /\ time = <<>> /\ vals = <<>> /\ inttime = 1
    /\ bpc = "idle" /\ bres = [outcome |-> "none"]

LDNext ==
    \/ Call /\ UNCHANGED <<trapzVars, binVars>>
    \/ Integrate /\ UNCHANGED <<trapzVars, binVars>>

SpecLD == LDInit /\ [][LDNext]_vars


-----------------------------------------------------------------------------
(* Properties of ntrapz (SpecTrapz) *)

\* the trapezoidal sum over integer arrays, every term summed before halving
TrapSum(x, y) ==
    Norm(<<SumOver(2..Len(x),
                   [i \in 2..Len(x) |-> (x[i] - x[i - 1]) * (y[i] + y[i - 1])]), 2>>)

\* C10: ntrapz(x, y) is the trapezoidal sum of (x[i]-x[i-1])*(y[i]+y[i-1])/2 over
\* i = 1..n-1 for equal-length arrays, is 0 for arrays of length 0 or 1, and is 2
\* for x = [0,1,2], y = [1,1,1].
C10_TrapezoidalSum ==
    tpc = "done" =>
        /\ tret = TrapSum(tx, ty)
        /\ (Len(tx) < 2 => tret = Rat(0))
        /\ (tx = <<0, 1, 2>> /\ ty = <<1, 1, 1>> => tret = Rat(2))

C10_Witness ==
    /\ tpc = "done"
    /\ tx = <<0, 1, 2>> /\ ty = <<1, 1, 1>>
    /\ tret = Rat(2)

-----------------------------------------------------------------------------
(* Properties of downsample_time (SpecBin) *)

Returned == bpc = "done" /\ bres.outcome = "ok"

\* the number of samples whose bin id is that of bin j (j = 1..nbins)
Count(j) == Cardinality(Mask(j - 1, bres.bids))

Sorted(t) == \A k \in 1..(Len(t) - 1) : t[k] <= t[k + 1]

AllSameTime(t) == \A k \in DOMAIN t : t[k] = t[1]

Perms(n) == {f \in [1..n -> 1..n] : \A a, b \in 1..n : f[a] = f[b] => a = b}

Permuted(a, f) == [k \in DOMAIN a |-> a[f[k]]]

\* the three returned arrays
Output(r) == <<r.bt, r.bv, r.be>>

\* C1: with a bin width > 0 every returned bin is one that at least 3 samples
\* were assigned to (no empty bin, no bin of 1 or 2 samples), and the returned
\* bins are in increasing bin order.
C1_OnlyBinsOfThreeOrMore ==
    (Returned /\ inttime > 0) =>
        LET full3 == [j \in 1..bres.nbins |-> Count(j) >= 3]
            mt == [j \in 1..bres.nbins |->
                     IF full3[j] THEN MeanOf(time, Mask(j - 1, bres.bids)) ELSE nan]
            mv == [j \in 1..bres.nbins |->
                     IF full3[j] THEN MeanOf(vals, Mask(j - 1, bres.bids)) ELSE nan]
        IN  /\ \A j \in 1..bres.nbins : bres.m[j] => full3[j]
            /\ bres.bt = Compress(mt, full3, 1)
            /\ bres.bv = Compress(mv, full3, 1)

\* C2: with a bin width > 0 the edges start at min(time), every sample is assigned
\* to the bin with the greatest edge <= its time, and every permutation of the
\* same (time, value) pairs returns the same bins.
C2_BinsByAbsoluteTime ==
    (Returned /\ inttime > 0) =>
        /\ bres.edges = EdgesFromMin(time, arange(bres.nbins), inttime)
        /\ bres.nbins >= 1 =>
              \A k \in DOMAIN time :
                 /\ bres.bids[k] \in 0..(bres.nbins - 1)
                 /\ bres.edges[bres.bids[k] + 1] <= time[k]
                 /\ \A j \in 1..bres.nbins :
                       bres.edges[j] <= time[k] => j <= bres.bids[k] + 1
        /\ \A f \in Perms(Len(time)) :
              LET r == downsample_time(Permuted(time, f), Permuted(vals, f), inttime)
              IN  r.outcome = "ok" /\ Output(r) = Output(bres)

\* C3: a call with a bin width <= 0 always ends in an error, never in a result.
C3_NonPositiveWidthFails ==
    (bpc = "done" /\ inttime <= 0) => bres.outcome \in {"ValueError", "ZeroDivisionError"}

\* C4: an empty series with a bin width > 0 gives zero bins and three empty
\* arrays, without an error.
C4_EmptySeriesReturnsEmpty ==
    (bpc = "done" /\ Len(time) = 0 /\ inttime > 0) =>
        /\ bres.outcome = "ok"
        /\ bres.nbins = 0
        /\ Output(bres) = <<<<>>, <<>>, <<>>>>

\* C8: with a bin width > 0 and times in ascending order no sample falls outside
\* every bin: each sample has a bin id in 0..nbins-1, a sample at or beyond the
\* last edge (the sample at max(time) included) is in bin nbins-1, and the bins
\* together hold as many samples as the series has, whenever nbins >= 1.
C8_SortedSamplesAllBinned ==
    (bpc = "done" /\ inttime > 0 /\ Len(time) >= 1 /\ Sorted(time)) =>
        /\ bres.outcome = "ok"
        /\ bres.nbins >= 1 =>
              /\ \A k \in DOMAIN time :
                    /\ bres.bids[k] \in 0..(bres.nbins - 1)
                    /\ time[k] >= bres.edges[bres.nbins] => bres.bids[k] = bres.nbins - 1
              /\ SumOver(1..bres.nbins, [j \in 1..bres.nbins |-> Count(j)]) = Len(time)

C8_Witness ==
    /\ Returned /\ inttime > 0 /\ Len(time) >= 3 /\ Sorted(time)
    /\ bres.nbins >= 2
    /\ SeqMax(time) - SeqMin(time) = bres.nbins * inttime
    /\ time[Len(time)] = SeqMax(time)
    /\ bres.bids[Len(time)] = bres.nbins - 1

\* C9: when all samples have the same time (bin width > 0) a single bin holds
\* them all; with 3 or more samples that bin is returned, its mean_time the
\* common time and its mean_value the mean of the values.
C9_SameTimeSingleBin ==
    (bpc = "done" /\ inttime > 0 /\ Len(time) >= 1 /\ AllSameTime(time)) =>
        /\ bres.outcome = "ok"
        /\ bres.nbins = 1
        /\ \A k \in DOMAIN time : bres.bids[k] = 0
        /\ Len(time) >= 3 =>
              /\ bres.bt = <<Rat(time[1])>>
              /\ bres.bv = <<MeanOf(vals, DOMAIN vals)>>

-----------------------------------------------------------------------------
(* Properties of LDTkLDModel (SpecLD) *)

\* row r of the last result is built, in every passband, from library sample s
RowFromSample(r, s) ==
    \A ipb \in 1..npb :
        /\ ldcall.ldp[r][ipb] = interp(ldcall.mu, mu, ldps[ipb][s + 1])
        /\ ldcall.ldi[r][ipb] = DiskIntegral(z, ldps[ipb][s + 1])

\* C5: in non-frozen evaluation every row r has exactly one sample index s_r in
\* 0..nsamples-1, the one drawn for the row, such that in every passband the
\* row's profile is the interpolation and the row's coefficient the integral of
\* library profile [passband][s_r].
C5_RowUsesOneDraw ==
    (~frozen /\ ldcall.outcome = "ok") =>
        /\ Len(ldcall.ldp) = ldcall.npv /\ Len(ldcall.ldi) = ldcall.npv
        /\ \A r \in 1..ldcall.npv :
              /\ ldcall.iis[r] \in 0..(nsamples - 1)
              /\ {s \in 0..(nsamples - 1) : RowFromSample(r, s)} = {ldcall.iis[r]}

C5_Witness ==
    /\ ~frozen /\ ldcall.outcome = "ok"
    /\ ldcall.npv >= 2 /\ Len(ldcall.mu) >= 2
    /\ ldcall.iis[1] # ldcall.iis[2]

\* the mean-profile interpolation and integration for a mu grid
MeanRowProfile(emu) == [ipb \in 1..npb |-> interp(emu, mu, mean_profiles[ipb])]
MeanRowCoefficient == [ipb \in 1..npb |-> DiskIntegral(z, mean_profiles[ipb])]

SameArguments(a, b) == a.mu = b.mu /\ a.npv = b.npv

\* C6: in frozen mode, for a batch of N >= 1 rows, every row of the profiles and
\* of the coefficients is the mean-profile interpolation / integration (all rows
\* equal row 0), and a frozen call returns what any earlier frozen call with the
\* same mu grid and batch size returned, whatever was drawn in between.
C6_FrozenDeterministicBroadcast ==
    (frozen /\ ldcall.outcome = "ok" /\ ldcall.npv >= 1) =>
        /\ Len(ldcall.ldp) = ldcall.npv /\ Len(ldcall.ldi) = ldcall.npv
        /\ \A r \in 1..ldcall.npv :
              /\ ldcall.ldp[r] = MeanRowProfile(ldcall.mu)
              /\ ldcall.ldi[r] = MeanRowCoefficient
              /\ ldcall.ldp[r] = ldcall.ldp[1] /\ ldcall.ldi[r] = ldcall.ldi[1]
        /\ (ldearlier.outcome = "ok" /\ SameArguments(ldearlier, ldcall)) =>
              ldearlier.ldp = ldcall.ldp /\ ldearlier.ldi = ldcall.ldi

C6_Witness ==
    /\ frozen /\ ldcall.outcome = "ok" /\ ldcall.npv >= 2 /\ Len(ldcall.mu) >= 2
    /\ ldearlier.outcome = "ok" /\ SameArguments(ldearlier, ldcall)
    /\ self_i # 0

\* C7: integrate always ends in NotImplementedError, in frozen and non-frozen
\* mode and after any sequence of calls; it leaves the model (frozen flag, last
\* draw, last result) as it was, and an evaluate call after it still returns a
\* coefficient for every row and passband.
C7_IntegrateNotSupported ==
    [][/\ ldop'.name = "integrate" =>
            /\ ldop'.outcome = "NotImplementedError"
            /\ self_i' = self_i /\ frozen' = frozen
            /\ ldcall' = ldcall /\ ldearlier' = ldearlier
       /\ (ldop.name = "integrate" /\ ldop'.name = "call" /\ ldcall'.npv >= 1) =>
            /\ ldop'.outcome = "ok"
            /\ Len(ldcall'.ldi) = ldcall'.npv
            /\ \A r \in 1..ldcall'.npv : Len(ldcall'.ldi[r]) = npb
      ]_vars

C7_Witness ==
    /\ ldop.name = "integrate" /\ ldop.outcome = "NotImplementedError"
    /\ ldcall.outcome = "ok" /\ ldcall.npv >= 1
    /\ self_i # 0

=============================================================================
